---- MODULE Spec2Model ----
(***************************************************************************)
(* Model of the form service (src/actions/form.ts), its creation schema    *)
(* (src/unnamed/part_000) and the publish widget                           *)
(* (src/components/PublishFormBtn.tsx).                                     *)
(*                                                                         *)
(* Every server action awaits currentUser() (which reads only the caller's *)
(* own session) and then issues exactly one Prisma call, which the store   *)
(* executes atomically.  An action of this module is therefore one whole   *)
(* handler; interleavings of concurrent requests are the interleavings of  *)
(* these actions.  Requests that are in flight are modelled explicitly for *)
(* the public fetch (pending) and for the publish widget (outstanding).    *)
(***************************************************************************)
EXTENDS Integers, Sequences, FiniteSets, TLC

\* ---------------------------------------------------------------- bounds
MaxForms == 1      \* forms the store may hold (Spec, SpecConcurrent, SpecWidget)
MaxCount == 1      \* cap on a form's visits and on its submissions
MaxCalls == 2      \* GetFormContentByUrl calls sent per shareURL (SpecConcurrent)
MaxClicks == 2     \* publish calls the widget may have outstanding (SpecWidget)
StatForms == 2     \* forms in the stores GetFormStats is applied to (SpecStats)
StatCount == 2     \* cap on their visits and submissions (SpecStats)

\* ------------------------------------------------------- program constants
MinNameLen == 4    \* z.string().min(4)
MantBits == 53     \* significand of a JavaScript number (IEEE 754 binary64)
Hundred == 100     \* the percentage scale of GetFormStats

\* ---------------------------------------------------------------- inputs
Users == {"alice", "bob"}
NoUser == "null"                    \* currentUser() resolved to null
Callers == Users \cup {NoUser}
Undefined == "undefined"            \* description left out
\* CreateForm inputs: names of length 3 and 4 (both sides of min(4)), with and
\* without a description.
Inputs ==
    {[name |-> "Sur", description |-> Undefined],
     [name |-> "Sur", description |-> "q1"],
     [name |-> "Surv", description |-> "q1"]}
Contents == {"c1"}                  \* serialized layouts / answer payloads
Ids == 1..MaxForms
NoURL == 0                          \* a token that is no form's shareURL
URLs == {NoURL} \cup Ids

\* -------------------------------------------------------------- outcomes
Ok == "ok"                                  \* resolved with a record
Null == "null result"                       \* resolved with null
UserNotFoundErr == "UserNotFoundErr"        \* class UserNotFoundErr
NotValidErr == "Error: From is not valid"
RecordNotFound == "PrismaClientKnownRequestError: record not found"

VARIABLES
    forms,        \* table Form: forms[id] is the row with primary key id
    subs,         \* table FormSubmission, in insertion order
    last,         \* the call that settled last: operation, caller, arguments, outcome
    pending,      \* pending[url]: GetFormContentByUrl calls sent, not yet executed
    served,       \* served[url]: GetFormContentByUrl calls that resolved (history)
    loading,      \* the widget's useTransition pending flag
    outstanding,  \* PublishForm calls of the widget that have not settled
    open,         \* the confirmation dialog is open
    toast         \* the last notification the widget raised

store == <<forms, subs>>
conc == <<pending, served>>
widget == <<loading, outstanding, open, toast>>
vars == <<forms, subs, last, pending, served, loading, outstanding, open, toast>>

\* ----------------------------------------------------------- the schema
\* Mutant: the name bound off by one, min(3).
SafeParseMin3(data) ==
    /\ Len(data.name) >= MinNameLen - 1
    /\ data.description = Undefined \/ data.description \in STRING

\* formSchema.safeParse(data).success
SafeParse(data) ==
    /\ Len(data.name) >= MinNameLen
    /\ data.description = Undefined \/ data.description \in STRING

\* ------------------------------------------------------------ the store
\* The token the store generates for a new row's shareURL, unique per row.
NewShareURL(id) == id

\* The values the Form table gives the columns that a create leaves out.
ColumnDefaults == [content |-> "", published |-> FALSE, visits |-> 0, submissions |-> 0]

\* The row prisma.form.create inserts: the data of the call, the generated key
\* and token, and the column defaults.
NewForm(id, userId, name, description) ==
    [id |-> id, userId |-> userId, name |-> name, description |-> description,
     content |-> ColumnDefaults.content, published |-> ColumnDefaults.published,
     visits |-> ColumnDefaults.visits, submissions |-> ColumnDefaults.submissions,
     shareURL |-> NewShareURL(id)]

Settle(op, user, arg, outcome, ret) ==
    last' = [op |-> op, user |-> user, arg |-> arg, outcome |-> outcome, ret |-> ret]

\* ------------------------------------------------------------ CreateForm
CreateFormEffect(u, data) ==
    IF ~SafeParse(data)
    THEN /\ Settle("CreateForm", u, data, NotValidErr, <<>>)
         /\ UNCHANGED store
    ELSE IF u = NoUser
    THEN /\ Settle("CreateForm", u, data, UserNotFoundErr, <<>>)
         /\ UNCHANGED store
    ELSE /\ forms' = Append(forms, NewForm(Len(forms) + 1, u, data.name, data.description))
         /\ Settle("CreateForm", u, data, Ok, Len(forms) + 1)
         /\ UNCHANGED subs

CreateForm(u, data) == CreateFormEffect(u, data) /\ UNCHANGED <<conc, widget>>

\* --------------------------------------------------------------- GetForm
\* createdAt grows with the id, so "createdAt desc" is descending id.
RECURSIVE DescIds(_)
DescIds(S) ==
    IF S = {} THEN <<>>
    ELSE LET m == CHOOSE x \in S : \A y \in S : y <= x
         IN <<m>> \o DescIds(S \ {m})

GetFormWhere(f, u) == f.userId = u

GetFormEffect(u) ==
    /\ IF u = NoUser
       THEN Settle("GetForm", u, <<>>, UserNotFoundErr, <<>>)
       ELSE LET ids == DescIds({i \in DOMAIN forms : GetFormWhere(forms[i], u)})
            IN Settle("GetForm", u, <<>>, Ok, [i \in DOMAIN ids |-> forms[ids[i]]])
    /\ UNCHANGED store

GetForm(u) == GetFormEffect(u) /\ UNCHANGED <<conc, widget>>

\* ----------------------------------------------------------- GetFormById
GetFormByIdWhere(f, u, id) == f.userId = u /\ f.id = id

GetFormByIdEffect(u, id) ==
    /\ IF u = NoUser
       THEN Settle("GetFormById", u, id, UserNotFoundErr, <<>>)
       ELSE IF {i \in DOMAIN forms : GetFormByIdWhere(forms[i], u, id)} # {}
       THEN Settle("GetFormById", u, id, Ok, forms[id])
       ELSE Settle("GetFormById", u, id, Null, <<>>)
    /\ UNCHANGED store

GetFormById(u, id) == GetFormByIdEffect(u, id) /\ UNCHANGED <<conc, widget>>

\* ----------------------------------------------------- UpdateFormContent
\* Mutant: the row is looked up by id alone.
UpdateFormContentWhereIdOnly(f, u, id) == f.id = id

UpdateFormContentWhere(f, u, id) == f.userId = u /\ f.id = id

UpdateFormContentData(f, jsonContent) == [f EXCEPT !.content = jsonContent]

UpdateFormContentEffect(u, id, jsonContent) ==
    IF u = NoUser
    THEN /\ Settle("UpdateFormContent", u, <<id, jsonContent>>, UserNotFoundErr, <<>>)
         /\ UNCHANGED store
    ELSE IF {i \in DOMAIN forms : UpdateFormContentWhere(forms[i], u, id)} # {}
    THEN /\ forms' = [forms EXCEPT ![id] = UpdateFormContentData(@, jsonContent)]
         /\ Settle("UpdateFormContent", u, <<id, jsonContent>>, Ok, forms'[id])
         /\ UNCHANGED subs
    ELSE /\ Settle("UpdateFormContent", u, <<id, jsonContent>>, RecordNotFound, <<>>)
         /\ UNCHANGED store

UpdateFormContent(u, id, jsonContent) ==
    UpdateFormContentEffect(u, id, jsonContent) /\ UNCHANGED <<conc, widget>>

\* ----------------------------------------------------------- PublishForm
PublishFormWhere(f, u, id) == f.userId = u /\ f.id = id

\* Mutant: publishing toggles the flag.
PublishFormDataToggle(f) == [f EXCEPT !.published = ~@]

PublishFormData(f) == [f EXCEPT !.published = TRUE]

\* Mutant: the handler without its currentUser() check.
PublishFormEffectNoAuth(u, id) ==
    IF {i \in DOMAIN forms : PublishFormWhere(forms[i], u, id)} # {}
    THEN /\ forms' = [forms EXCEPT ![id] = PublishFormData(@)]
         /\ Settle("PublishForm", u, id, Ok, forms'[id])
         /\ UNCHANGED subs
    ELSE /\ Settle("PublishForm", u, id, RecordNotFound, <<>>)
         /\ UNCHANGED store

PublishFormEffect(u, id) ==
    IF u = NoUser
    THEN /\ Settle("PublishForm", u, id, UserNotFoundErr, <<>>)
         /\ UNCHANGED store
    ELSE IF {i \in DOMAIN forms : PublishFormWhere(forms[i], u, id)} # {}
    THEN /\ forms' = [forms EXCEPT ![id] = PublishFormData(@)]
         /\ Settle("PublishForm", u, id, Ok, forms'[id])
         /\ UNCHANGED subs
    ELSE /\ Settle("PublishForm", u, id, RecordNotFound, <<>>)
         /\ UNCHANGED store

PublishForm(u, id) == PublishFormEffect(u, id) /\ UNCHANGED <<conc, widget>>

\* --------------------------------------------------- GetFormContentByUrl
GetFormContentByUrlWhere(f, formUrl) == f.shareURL = formUrl

\* Mutant: the increment lands on the neighbouring counter.
GetFormContentByUrlDataSubmissions(f) == [f EXCEPT !.submissions = @ + 1]

\* Mutant: decrement for increment.
GetFormContentByUrlDataDecrement(f) == [f EXCEPT !.visits = @ - 1]

GetFormContentByUrlData(f) == [f EXCEPT !.visits = @ + 1]

GetFormContentByUrlEffect(formUrl) ==
    LET rows == {i \in DOMAIN forms : GetFormContentByUrlWhere(forms[i], formUrl)}
    IN IF rows = {}
       THEN /\ Settle("GetFormContentByUrl", NoUser, formUrl, RecordNotFound, <<>>)
            /\ UNCHANGED store
       ELSE LET id == CHOOSE i \in rows : TRUE
            IN /\ forms' = [forms EXCEPT ![id] = GetFormContentByUrlData(@)]
               /\ Settle("GetFormContentByUrl", NoUser, formUrl, Ok, [content |-> forms'[id].content])
               /\ UNCHANGED subs

GetFormContentByUrl(formUrl) ==
    GetFormContentByUrlEffect(formUrl) /\ UNCHANGED <<conc, widget>>

\* ------------------------------------------------------------ SubmitForm
\* Mutant: the published filter left out.
SubmitFormWhereAnyState(f, formUrl) == f.shareURL = formUrl

SubmitFormWhere(f, formUrl) == f.shareURL = formUrl /\ f.published = TRUE

SubmitFormData(f) == [f EXCEPT !.submissions = @ + 1]

\* Mutant: the nested create left out.
SubmitFormCreateNothing(id, content) == subs

\* The nested create: the rows of FormSubmission after the update of form id.
SubmitFormCreate(id, content) == Append(subs, [formId |-> id, content |-> content])

SubmitFormEffect(formUrl, content) ==
    LET rows == {i \in DOMAIN forms : SubmitFormWhere(forms[i], formUrl)}
    IN IF rows = {}
       THEN /\ Settle("SubmitForm", NoUser, <<formUrl, content>>, RecordNotFound, <<>>)
            /\ UNCHANGED store
       ELSE LET id == CHOOSE i \in rows : TRUE
            IN /\ forms' = [forms EXCEPT ![id] = SubmitFormData(@)]
               /\ subs' = SubmitFormCreate(id, content)
               /\ Settle("SubmitForm", NoUser, <<formUrl, content>>, Ok, forms'[id])

SubmitForm(formUrl, content) ==
    SubmitFormEffect(formUrl, content) /\ UNCHANGED <<conc, widget>>

\* ------------------------------------------------ GetFormWithSubmissions
GetFormWithSubmissionsWhere(f, u, id) == f.userId = u /\ f.id = id

\* include: { FromSubmission: true }
FromSubmission(id) == SelectSeq(subs, LAMBDA s : s.formId = id)

GetFormWithSubmissionsEffect(u, id) ==
    /\ IF u = NoUser
       THEN Settle("GetFormWithSubmissions", u, id, UserNotFoundErr, <<>>)
       ELSE IF {i \in DOMAIN forms : GetFormWithSubmissionsWhere(forms[i], u, id)} # {}
       THEN Settle("GetFormWithSubmissions", u, id, Ok,
                   [form |-> forms[id], FromSubmission |-> FromSubmission(id)])
       ELSE Settle("GetFormWithSubmissions", u, id, Null, <<>>)
    /\ UNCHANGED store

GetFormWithSubmissions(u, id) ==
    GetFormWithSubmissionsEffect(u, id) /\ UNCHANGED <<conc, widget>>


\* --------------------------------------------- JavaScript number arithmetic
\* The numbers GetFormStats computes are IEEE 754 doubles.  Their significands
\* are kept as natural numbers in limbs below 2^15, so that every intermediate
\* value is exact.
LimbBits == 15
Base == 2 ^ LimbBits

\* A natural number as its limbs below Base, least significant first, no zero
\* at the high end.
RECURSIVE Limbs(_)
Limbs(n) == IF n = 0 THEN <<>> ELSE <<n % Base>> \o Limbs(n \div Base)

RECURSIVE Strip(_)
Strip(a) == IF a = <<>> \/ a[Len(a)] # 0 THEN a ELSE Strip(SubSeq(a, 1, Len(a) - 1))

Limb(a, i) == IF i \in 1..Len(a) THEN a[i] ELSE 0

RECURSIVE AddFrom(_, _, _, _)
AddFrom(a, b, i, c) ==
    IF i > Len(a) /\ i > Len(b) THEN Limbs(c)
    ELSE <<(Limb(a, i) + Limb(b, i) + c) % Base>>
            \o AddFrom(a, b, i + 1, (Limb(a, i) + Limb(b, i) + c) \div Base)
AddL(a, b) == AddFrom(a, b, 1, 0)

\* a - b for a >= b
RECURSIVE SubFrom(_, _, _, _)
SubFrom(a, b, i, c) ==
    IF i > Len(a) THEN <<>>
    ELSE <<(Limb(a, i) - Limb(b, i) - c) % Base>>
            \o SubFrom(a, b, i + 1, IF Limb(a, i) - Limb(b, i) - c < 0 THEN 1 ELSE 0)
SubL(a, b) == Strip(SubFrom(a, b, 1, 0))

RECURSIVE LessFrom(_, _, _)
LessFrom(a, b, i) ==
    IF i = 0 THEN FALSE
    ELSE IF a[i] # b[i] THEN a[i] < b[i]
    ELSE LessFrom(a, b, i - 1)
LessL(a, b) == IF Len(a) # Len(b) THEN Len(a) < Len(b) ELSE LessFrom(a, b, Len(a))

\* a * k for 0 <= k < Base
RECURSIVE MulFrom(_, _, _, _)
MulFrom(a, k, i, c) ==
    IF i > Len(a) THEN Limbs(c)
    ELSE <<(a[i] * k + c) % Base>> \o MulFrom(a, k, i + 1, (a[i] * k + c) \div Base)
MulS(a, k) == Strip(MulFrom(a, k, 1, 0))

\* <<a \div k, a % k>> for 0 < k < Base, from the high limb down
RECURSIVE DivFrom(_, _, _, _)
DivFrom(a, k, i, r) ==
    IF i = 0 THEN <<<<>>, r>>
    ELSE LET rest == DivFrom(a, k, i - 1, (r * Base + a[i]) % k)
         IN <<Append(rest[1], (r * Base + a[i]) \div k), rest[2]>>
DivS(a, k) == LET qr == DivFrom(a, k, Len(a), 0) IN <<Strip(qr[1]), qr[2]>>

BitLenS(n) == IF n = 0 THEN 0 ELSE CHOOSE i \in 1..LimbBits : 2 ^ (i - 1) <= n /\ n < 2 ^ i
BitLen(a) == IF a = <<>> THEN 0 ELSE LimbBits * (Len(a) - 1) + BitLenS(a[Len(a)])
ShiftL(a, n) ==
    IF a = <<>> THEN a
    ELSE [i \in 1..(n \div LimbBits) |-> 0] \o MulS(a, 2 ^ (n % LimbBits))
ShiftR(a, n) ==
    IF n \div LimbBits >= Len(a) THEN <<>>
    ELSE DivS(SubSeq(a, (n \div LimbBits) + 1, Len(a)), 2 ^ (n % LimbBits))[1]
\* bit i of a, the lowest being bit 1
BitAt(a, i) == (Limb(a, ((i - 1) \div LimbBits) + 1) \div (2 ^ ((i - 1) % LimbBits))) % 2
\* a is a multiple of 2^n
LowZero(a, n) ==
    /\ \A i \in 1..(n \div LimbBits) : Limb(a, i) = 0
    /\ Limb(a, (n \div LimbBits) + 1) % (2 ^ (n % LimbBits)) = 0

\* A double: (-1)^neg * m * 2^e with m of exactly MantBits bits, or zero.
Zero == [neg |-> FALSE, m |-> <<>>, e |-> 0]

\* The integer a * 2^e rounded to MantBits bits: to nearest, ties to even.
Round(neg, a, e) ==
    IF a = <<>> THEN Zero
    ELSE IF BitLen(a) <= MantBits
    THEN [neg |-> neg, m |-> ShiftL(a, MantBits - BitLen(a)), e |-> e - (MantBits - BitLen(a))]
    ELSE LET k == BitLen(a) - MantBits
             high == ShiftR(a, k)
             up == BitAt(a, k) = 1 /\ (~LowZero(a, k - 1) \/ BitAt(high, 1) = 1)
             m == IF up THEN AddL(high, <<1>>) ELSE high
         IN IF BitLen(m) > MantBits
            THEN [neg |-> neg, m |-> ShiftR(m, 1), e |-> e + k + 1]
            ELSE [neg |-> neg, m |-> m, e |-> e + k]

Abs(n) == IF n < 0 THEN -n ELSE n
\* The double of an integer (exact below 2^53).
FromInt(n) == Round(n < 0, Limbs(Abs(n)), 0)

\* x * k for an integer |k| < Base
FMulInt(x, k) == Round(x.neg # (k < 0), MulS(x.m, Abs(k)), x.e)

\* s / v for integers 0 <= s and 0 < v < Base: floor(s * 2^t / v) has
\* MantBits + 2 bits or more, and a remainder is kept as a sticky lowest bit.
FDivInt(s, v) ==
    LET t == MantBits + 2 + BitLenS(v)
        qr == DivS(ShiftL(Limbs(s), t), v)
        q == IF qr[2] = 0 \/ qr[1][1] % 2 = 1 THEN qr[1] ELSE [qr[1] EXCEPT ![1] = @ + 1]
    IN IF s = 0 THEN Zero ELSE Round(FALSE, q, -t)

FAdd(x, y) ==
    IF x.m = <<>> THEN y
    ELSE IF y.m = <<>> THEN x
    ELSE LET e0 == IF x.e < y.e THEN x.e ELSE y.e
             a == ShiftL(x.m, x.e - e0)
             b == ShiftL(y.m, y.e - e0)
         IN IF x.neg = y.neg THEN Round(x.neg, AddL(a, b), e0)
            ELSE IF LessL(a, b) THEN Round(y.neg, SubL(b, a), e0)
            ELSE Round(x.neg, SubL(a, b), e0)

FNeg(x) == IF x.m = <<>> THEN x ELSE [x EXCEPT !.neg = ~@]
FSub(x, y) == FAdd(x, FNeg(y))

\* ---------------------------------------------------------- GetFormStats
\* Mutant: the aggregate over every user's forms.
GetFormStatsWhereAll(f, u) == TRUE

GetFormStatsWhere(f, u) == f.userId = u

RECURSIVE SumOver(_, _)
SumOver(S, column) ==
    IF S = {} THEN 0
    ELSE LET id == CHOOSE i \in S : TRUE
         IN forms[id][column] + SumOver(S \ {id}, column)

\* prisma.form.aggregate({ where, _sum }): the sums are null over no rows.
Aggregate(u) ==
    LET rows == {i \in DOMAIN forms : GetFormStatsWhere(forms[i], u)}
    IN IF rows = {}
       THEN [none |-> TRUE, visits |-> 0, submissions |-> 0]
       ELSE [none |-> FALSE, visits |-> SumOver(rows, "visits"),
             submissions |-> SumOver(rows, "submissions")]

\* stats._sum.x || 0
OrZero(none, n) == IF none \/ n = 0 THEN 0 ELSE n

SubmissionRate(submissions, visits) ==
    IF visits > 0 THEN FMulInt(FDivInt(submissions, visits), Hundred) ELSE FromInt(0)

BounceRate(submissionRate) == FSub(FromInt(Hundred), submissionRate)

Stats(u) ==
    LET stats == Aggregate(u)
        visits == OrZero(stats.none, stats.visits)
        submissions == OrZero(stats.none, stats.submissions)
        submissionRate == SubmissionRate(submissions, visits)
    IN [visits |-> visits, submissions |-> submissions,
        submissionRate |-> submissionRate, bounceRate |-> BounceRate(submissionRate)]

GetFormStatsEffect(u) ==
    /\ IF u = NoUser
       THEN Settle("GetFormStats", u, <<>>, UserNotFoundErr, <<>>)
       ELSE Settle("GetFormStats", u, <<>>, Ok, Stats(u))
    /\ UNCHANGED store

GetFormStats(u) == GetFormStatsEffect(u) /\ UNCHANGED <<conc, widget>>

\* ------------------------------------- GetFormContentByUrl calls in flight
\* A client sends the call; it is in flight until the store executes its update.
SendGetFormContentByUrl(formUrl) ==
    /\ pending' = [pending EXCEPT ![formUrl] = @ + 1]
    /\ UNCHANGED <<store, last, served, widget>>

ServeGetFormContentByUrl(formUrl) ==
    /\ pending[formUrl] > 0
    /\ GetFormContentByUrlEffect(formUrl)
    /\ pending' = [pending EXCEPT ![formUrl] = @ - 1]
    /\ served' = [served EXCEPT ![formUrl] = IF last'.outcome = Ok THEN @ + 1 ELSE @]
    /\ UNCHANGED widget

\* --------------------------------------------------------- PublishFormBtn
\* The widget of the form WidgetId; its server action runs in the session of
\* whoever is signed in when the request arrives.
WidgetId == 1

\* Mutant: the disabled attribute left out.
DisabledNever == FALSE

\* disabled={loading}
Disabled == loading

\* AlertDialogTrigger
OpenDialog ==
    /\ ~open
    /\ open' = TRUE
    /\ UNCHANGED <<store, last, conc, loading, outstanding, toast>>

\* AlertDialogCancel
CancelDialog ==
    /\ open
    /\ open' = FALSE
    /\ UNCHANGED <<store, last, conc, loading, outstanding, toast>>

\* AlertDialogAction onClick: preventDefault keeps the dialog open, and
\* startTransition(publishForm) sends PublishForm(id); useTransition holds
\* loading until the action has settled.
ClickProceed ==
    /\ open
    /\ ~Disabled
    /\ loading' = TRUE
    /\ outstanding' = outstanding + 1
    /\ UNCHANGED <<store, last, conc, open, toast>>

\* The server runs PublishForm(id) and publishForm() resumes after its await:
\* a success toast on a resolved call, an error toast in the catch.
PublishSettles(u) ==
    /\ outstanding > 0
    /\ PublishFormEffect(u, WidgetId)
    /\ toast' = IF last'.outcome = Ok THEN "Success" ELSE "Error"
    /\ outstanding' = outstanding - 1
    /\ loading' = (outstanding' > 0)
    /\ UNCHANGED <<conc, open>>

\* ------------------------------------------------------------------ Init
NoCall == [op |-> "none", user |-> NoUser, arg |-> <<>>, outcome |-> Ok, ret |-> <<>>]

InitRest ==
    /\ last = NoCall
    /\ pending = [url \in URLs |-> 0]
    /\ served = [url \in URLs |-> 0]
    /\ loading = FALSE
    /\ outstanding = 0
    /\ open = FALSE
    /\ toast = "none"

Init ==
    /\ forms = <<>>
    /\ subs = <<>>
    /\ InitRest

\* ------------------------------------------------------- the form service
VisitsOf(formUrl) == {forms[id].visits : id \in {i \in DOMAIN forms : GetFormContentByUrlWhere(forms[i], formUrl)}}
SubmissionsOf(formUrl) == {forms[id].submissions : id \in {i \in DOMAIN forms : SubmitFormWhere(forms[i], formUrl)}}

\* The guards cap the table and the counters.
Writes ==
    \/ \E u \in Callers, data \in Inputs : Len(forms) < MaxForms /\ CreateForm(u, data)
    \/ \E u \in Callers, id \in Ids, c \in Contents : UpdateFormContent(u, id, c)
    \/ \E u \in Callers, id \in Ids : PublishForm(u, id)
    \/ \E url \in URLs, c \in Contents :
            (\A n \in SubmissionsOf(url) : n < MaxCount) /\ SubmitForm(url, c)

Reads ==
    \/ \E u \in Callers : GetForm(u)
    \/ \E u \in Callers, id \in Ids : GetFormById(u, id)
    \/ \E u \in Callers, id \in Ids : GetFormWithSubmissions(u, id)
    \/ \E u \in Callers : GetFormStats(u)

Next ==
    \/ Writes
    \/ Reads
    \/ \E url \in URLs : (\A n \in VisitsOf(url) : n < MaxCount) /\ GetFormContentByUrl(url)

Spec == Init /\ [][Next]_vars

\* -------------------------------------- concurrent public fetches in flight
NextConcurrent ==
    \/ \E u \in Callers, data \in Inputs : Len(forms) < MaxForms /\ CreateForm(u, data)
    \/ \E u \in Callers, id \in Ids, c \in Contents : UpdateFormContent(u, id, c)
    \/ \E url \in URLs :
            pending[url] + served[url] < MaxCalls /\ SendGetFormContentByUrl(url)
    \/ \E url \in URLs : ServeGetFormContentByUrl(url)

SpecConcurrent == Init /\ [][NextConcurrent]_vars

\* ------------------------------------------------------------ the widget
NextWidget ==
    \/ \E u \in Callers, data \in Inputs : Len(forms) < MaxForms /\ CreateForm(u, data)
    \/ \E u \in Callers, id \in Ids : PublishForm(u, id)
    \/ OpenDialog
    \/ CancelDialog
    \/ outstanding < MaxClicks /\ ClickProceed
    \/ \E u \in Callers : PublishSettles(u)

SpecWidget == Init /\ [][NextWidget]_vars

\* ------------------------------------------------- GetFormStats on stores
\* The stores of up to StatForms forms with counters up to StatCount: each is
\* reached by creating the forms in turn, publishing those with submissions,
\* and fetching and submitting form by form.
StatRow(id, c) ==
    [NewForm(id, c[1], "Surv", "q1") EXCEPT
        !.visits = c[2], !.submissions = c[3], !.published = c[3] > 0]

RECURSIVE StatSubs(_, _)
StatSubs(fs, id) ==
    IF id > Len(fs) THEN <<>>
    ELSE [i \in 1..fs[id].submissions |-> [formId |-> id, content |-> "c1"]]
            \o StatSubs(fs, id + 1)

InitStats ==
    /\ \E n \in 0..StatForms :
        \E c \in [1..n -> Users \X (0..StatCount) \X (0..StatCount)] :
            forms = [id \in 1..n |-> StatRow(id, c[id])]
    /\ subs = StatSubs(forms, 1)
    /\ InitRest

NextStats == \E u \in Callers : GetFormStats(u)

SpecStats == InitStats /\ [][NextStats]_vars

\* ======================================================================
\* Properties
\* ======================================================================
OwnerScoped == {"GetFormById", "UpdateFormContent", "PublishForm"}
AuthOps ==
    {"CreateForm", "GetForm", "GetFormById", "UpdateFormContent", "PublishForm",
     "GetFormWithSubmissions", "GetFormStats"}

\* The id a settled call was made with.
CallId(call) == IF call.op = "UpdateFormContent" THEN call.arg[1] ELSE call.arg

\* The call is by a signed-in user on an existing form of another user.
CrossUser(call) ==
    /\ call.op \in OwnerScoped
    /\ call.user \in Users
    /\ CallId(call) \in DOMAIN forms
    /\ forms[CallId(call)].userId # call.user

\* C1: a GetFormById, UpdateFormContent or PublishForm call by user A with the
\* id of an existing form of another user B never returns that form (it resolves
\* with null or rejects with record-not-found) and leaves every row unchanged.
C1_CrossUserIsolation ==
    [][CrossUser(last') =>
        /\ last'.outcome \in {Null, RecordNotFound}
        /\ forms' = forms
        /\ subs' = subs]_vars

\* An update by a stranger has been refused on a form that exists and is published.
C1_Witness ==
    /\ CrossUser(last)
    /\ last.op = "UpdateFormContent"
    /\ last.outcome = RecordNotFound
    /\ forms[CallId(last)].published

Submittable(formUrl) ==
    \E i \in DOMAIN forms : forms[i].shareURL = formUrl /\ forms[i].published

\* C2: SubmitForm on a shareURL that matches no form, or whose form is not
\* published, is rejected and leaves both tables unchanged; and every
\* FormSubmission row is linked to an existing, published form.
C2_SubmitNeedsPublished ==
    /\ [][(last'.op = "SubmitForm" /\ ~Submittable(last'.arg[1])) =>
            /\ last'.outcome = RecordNotFound
            /\ forms' = forms
            /\ subs' = subs]_vars
    /\ [](\A j \in DOMAIN subs :
            /\ subs[j].formId \in DOMAIN forms
            /\ forms[subs[j].formId].published)

\* A submission to an existing, unpublished form has been rejected.
C2_Witness ==
    /\ last.op = "SubmitForm"
    /\ last.outcome = RecordNotFound
    /\ \E i \in DOMAIN forms : forms[i].shareURL = last.arg[1] /\ ~forms[i].published

\* C3: each GetFormContentByUrl call that resolves adds exactly 1 to the visits
\* of the form with that shareURL and changes nothing else in either table; and
\* however the calls in flight interleave, a form's visits exceed their value
\* at creation by the number of calls on its shareURL that have resolved.
C3_VisitsCountCalls ==
    /\ [][\A url \in URLs : served'[url] # served[url] =>
            \E i \in DOMAIN forms :
                /\ forms[i].shareURL = url
                /\ forms' = [forms EXCEPT ![i].visits = forms[i].visits + 1]
                /\ subs' = subs]_vars
    /\ [](\A i \in DOMAIN forms :
            forms[i].visits = ColumnDefaults.visits + served[forms[i].shareURL])

\* One call on a shareURL has resolved while another on it is still in flight.
C3_Witness ==
    \E i \in DOMAIN forms :
        /\ forms[i].visits = 1
        /\ served[forms[i].shareURL] = 1
        /\ pending[forms[i].shareURL] = 1

\* C4 as stated: with no current user, each of the seven owner-scoped
\* operations fails with UserNotFoundErr for every input, store unchanged.
C4_Original ==
    [][(last'.op \in AuthOps /\ last'.user = NoUser) =>
        /\ last'.outcome = UserNotFoundErr
        /\ forms' = forms
        /\ subs' = subs]_vars

\* C4 amended: with no current user, each of the seven owner-scoped operations
\* fails and leaves the store unchanged; it fails with UserNotFoundErr, except
\* that CreateForm with an input the schema rejects fails with the validation
\* error, which is raised before the user is looked up.
C4_AuthRequired ==
    [][(last'.op \in AuthOps /\ last'.user = NoUser) =>
        /\ last'.outcome =
                IF last'.op = "CreateForm" /\ Len(last'.arg.name) < 4
                THEN NotValidErr ELSE UserNotFoundErr
        /\ forms' = forms
        /\ subs' = subs]_vars

\* An anonymous PublishForm on an existing, unpublished form has failed.
C4_Witness ==
    /\ last.op = "PublishForm"
    /\ last.user = NoUser
    /\ last.outcome = UserNotFoundErr
    /\ last.arg \in DOMAIN forms
    /\ ~forms[last.arg].published

\* C5: CreateForm with a name shorter than 4 fails with the validation error
\* for every caller and description, and the tables are as before the call.
C5_ShortNameRejected ==
    [][(last'.op = "CreateForm" /\ Len(last'.arg.name) < 4) =>
        /\ last'.outcome = NotValidErr
        /\ forms' = forms
        /\ subs' = subs]_vars

\* A signed-in user's CreateForm with a 3-letter name and a description has failed.
C5_Witness ==
    /\ last.op = "CreateForm"
    /\ last.user \in Users
    /\ Len(last.arg.name) = 3
    /\ last.arg.description # Undefined
    /\ last.outcome = NotValidErr

\* C6: a form is created unpublished; a published form stays published in
\* every step; and PublishForm by the owner of an already published form
\* resolves with the form, as the first call did, leaving it published.
C6_PublishedOneWay ==
    [][/\ \A i \in DOMAIN forms :
            forms[i].published => (i \in DOMAIN forms' /\ forms'[i].published)
       /\ \A i \in DOMAIN forms' \ DOMAIN forms : ~forms'[i].published
       /\ (/\ last'.op = "PublishForm"
           /\ last'.arg \in DOMAIN forms
           /\ forms[last'.arg].userId = last'.user)
            => (last'.outcome = Ok /\ last'.ret.published /\ forms'[last'.arg].published)]_vars

\* PublishForm has resolved on a form that already has a submission, which only
\* a published form can have: the publish was a repeated one.
C6_Witness ==
    /\ last.op = "PublishForm"
    /\ last.outcome = Ok
    /\ forms[last.arg].submissions > 0
    /\ forms[last.arg].published

\* The sum of a column over the forms 1..n that user u owns.
RECURSIVE OwnSum(_, _, _)
OwnSum(n, u, column) ==
    IF n = 0 THEN 0
    ELSE (IF forms[n].userId = u THEN forms[n][column] ELSE 0) + OwnSum(n - 1, u, column)

\* C7: GetFormStats resolves for every signed-in user, with visits and
\* submissions the sums over exactly that user's forms; when visits > 0,
\* submissionRate + bounceRate (added as JavaScript adds them) is 100; when
\* visits = 0, submissionRate is 0 and bounceRate is 100.
C7_StatsOfOwnForms ==
    (last.op = "GetFormStats" /\ last.user \in Users) =>
        /\ last.outcome = Ok
        /\ last.ret.visits = OwnSum(Len(forms), last.user, "visits")
        /\ last.ret.submissions = OwnSum(Len(forms), last.user, "submissions")
        /\ last.ret.visits > 0 =>
                FAdd(last.ret.submissionRate, last.ret.bounceRate) = FromInt(100)
        /\ last.ret.visits = 0 =>
                /\ last.ret.submissionRate = FromInt(0)
                /\ last.ret.bounceRate = FromInt(100)

\* Stats over two forms of the caller with 1 submission in 3 visits, a rate
\* that no double represents exactly.
C7_Witness ==
    /\ last.op = "GetFormStats"
    /\ last.outcome = Ok
    /\ Len(forms) = 2
    /\ last.ret.visits = 3
    /\ last.ret.submissions = 1

\* C8: no step lowers a form's visits or submissions, and a form starts with both at 0.
C8_CountersMonotone ==
    [][/\ \A i \in DOMAIN forms :
            /\ i \in DOMAIN forms'
            /\ forms'[i].visits >= forms[i].visits
            /\ forms'[i].submissions >= forms[i].submissions
       /\ \A i \in DOMAIN forms' \ DOMAIN forms :
            forms'[i].visits = 0 /\ forms'[i].submissions = 0]_vars

\* Both counters of a form have been raised, and a rejected call came after.
C8_Witness ==
    /\ last.outcome \in {UserNotFoundErr, RecordNotFound, NotValidErr}
    /\ \E i \in DOMAIN forms : forms[i].visits > 0 /\ forms[i].submissions > 0

\* C9: the widget has at most one PublishForm call outstanding; Proceed is
\* disabled exactly while a call is outstanding, so a click then sends nothing,
\* and it is enabled again once the call has resolved or rejected.
C9_OneCallInFlight ==
    /\ outstanding <= 1
    /\ Disabled <=> outstanding > 0

\* A call is in flight with Proceed disabled, after an earlier call was rejected.
C9_Witness ==
    /\ outstanding = 1
    /\ Disabled
    /\ open
    /\ toast = "Error"

====
